---- MODULE Spec2Model ----
(***************************************************************************)
(* Model of NAS_assessment.py: the Record / Format / Database storage      *)
(* layer.  A Python string is a sequence of characters; a character is a   *)
(* TLA+ string naming it.  A dict is the sequence of its <<key, value>>    *)
(* items in insertion order.  The file system maps a path to the content   *)
(* of the file stored there.                                               *)
(***************************************************************************)
EXTENDS Integers, Sequences, FiniteSets, TLC

----------------------------------------------------------------------------
(* Characters with a meaning to the csv and json libraries.                *)

COMMA == ","
DQ    == "DQ"        \* the double quote
CR    == "CR"        \* carriage return
LF    == "LF"        \* line feed
BS    == "BS"        \* the backslash
DOT   == "."

MaxRecs == 2         \* bound: records a data file holds at most
MaxFailAt == 2       \* bound: the writes of an import that can be failed

----------------------------------------------------------------------------
(* Sequence helpers.                                                       *)

RECURSIVE Join(_, _)
Join(ss, sep) ==
    IF ss = <<>> THEN <<>>
    ELSE IF Len(ss) = 1 THEN ss[1]
    ELSE ss[1] \o sep \o Join(Tail(ss), sep)

Contains(s, c) == \E i \in DOMAIN s : s[i] = c

\* v bound to a name in Body: a local variable that is computed once
With(v, Body(_)) == Body(v)

----------------------------------------------------------------------------
(* Record (a dict subclass).                                               *)

categories == << <<"name">>, <<"address">>, <<"phone number">> >>

Values(d) == [i \in DOMAIN d |-> d[i][2]]

\* dict.__eq__: same items, whatever the insertion order
DictEq(a, b) == {a[i] : i \in DOMAIN a} = {b[i] : i \in DOMAIN b}

\* list.__eq__ over lists of Records
ListEq(xs, ys) ==
    /\ Len(xs) = Len(ys)
    /\ \A i \in DOMAIN xs : DictEq(xs[i], ys[i])

----------------------------------------------------------------------------
(* Results of a call: a returned value or a raised exception.              *)

Returned(v) == [kind |-> "return", val |-> <<v>>, exc |-> "none"]
Raised(e)   == [kind |-> "raise",  val |-> <<>>,  exc |-> e]
IsRaise(r)  == r.kind = "raise"
RetVal(r)   == r.val[1]

----------------------------------------------------------------------------
(* The file system.                                                        *)

Absent       == [kind |-> "absent"]
TextFile(t)  == [kind |-> "text", text |-> t]
JsonFile(d)  == [kind |-> "json", data |-> d]

isfile(fs, p) == p \in DOMAIN fs /\ fs[p].kind # "absent"

----------------------------------------------------------------------------
(* csv.writer, excel dialect: QUOTE_MINIMAL, doublequote, "\r\n" rows.     *)

RECURSIVE DoubleQuotes(_)
DoubleQuotes(s) ==
    IF s = <<>> THEN <<>>
    ELSE (IF Head(s) = DQ THEN <<DQ, DQ>> ELSE <<Head(s)>>)
         \o DoubleQuotes(Tail(s))

NeedsQuotes(field) == \E c \in {COMMA, DQ, CR, LF} : Contains(field, c)

QuoteField(field) ==
    IF NeedsQuotes(field) THEN <<DQ>> \o DoubleQuotes(field) \o <<DQ>>
    ELSE field

writerow(fields) ==
    IF Len(fields) = 1 /\ fields[1] = <<>> THEN <<DQ, DQ, CR, LF>>
    ELSE Join([i \in DOMAIN fields |-> QuoteField(fields[i])], <<COMMA>>)
         \o <<CR, LF>>

----------------------------------------------------------------------------
(* open(fName, 'r'): universal newlines, "\r\n" and "\r" are read as "\n". *)

UniversalNewlines(t) ==
    With(SelectSeq([i \in DOMAIN t |-> i],
                   LAMBDA i : ~(t[i] = LF /\ i > 1 /\ t[i - 1] = CR)),
         LAMBDA kept :
            [j \in DOMAIN kept |-> IF t[kept[j]] = CR THEN LF ELSE t[kept[j]]])

\* the lines a text file iterates over: each ends after its "\n", the last
\* one at the end of the file
Lines(t) ==
    With(SelectSeq([i \in DOMAIN t |-> i], LAMBDA i : t[i] = LF),
         LAMBDA ends :
            [k \in DOMAIN ends |->
                SubSeq(t, IF k = 1 THEN 1 ELSE ends[k - 1] + 1, ends[k])]
            \o (IF ends = <<>> THEN (IF t = <<>> THEN <<>> ELSE <<t>>)
                ELSE IF ends[Len(ends)] < Len(t)
                     THEN <<SubSeq(t, ends[Len(ends)] + 1, Len(t))>>
                     ELSE <<>>))

----------------------------------------------------------------------------
(* csv.reader, excel dialect, not strict: the parser's state machine.  EOL *)
(* is the end-of-line mark the reader feeds after each line of the file.   *)

EOL == "EOL"

ParserInit ==
    [state |-> "START_RECORD", field |-> <<>>, fields |-> <<>>,
     rows |-> <<>>, error |-> FALSE]

SaveField(p) == [p EXCEPT !.fields = Append(@, p.field), !.field = <<>>]
AddChar(p, c) == [p EXCEPT !.field = Append(@, c)]
AfterNewline(c) == IF c = EOL THEN "START_RECORD" ELSE "EAT_CRNL"

StartField(p, c) ==
    IF c \in {LF, CR, EOL}
    THEN [SaveField(p) EXCEPT !.state = AfterNewline(c)]
    ELSE IF c = DQ THEN [p EXCEPT !.state = "IN_QUOTED_FIELD"]
    ELSE IF c = COMMA THEN [SaveField(p) EXCEPT !.state = "START_FIELD"]
    ELSE [AddChar(p, c) EXCEPT !.state = "IN_FIELD"]

ProcessChar(p, c) ==
    CASE p.state = "START_RECORD" ->
            IF c = EOL THEN p
            ELSE IF c \in {LF, CR} THEN [p EXCEPT !.state = "EAT_CRNL"]
            ELSE StartField(p, c)
      [] p.state = "START_FIELD" -> StartField(p, c)
      [] p.state = "IN_FIELD" ->
            IF c \in {LF, CR, EOL}
            THEN [SaveField(p) EXCEPT !.state = AfterNewline(c)]
            ELSE IF c = COMMA THEN [SaveField(p) EXCEPT !.state = "START_FIELD"]
            ELSE AddChar(p, c)
      [] p.state = "IN_QUOTED_FIELD" ->
            IF c = EOL THEN p
            ELSE IF c = DQ THEN [p EXCEPT !.state = "QUOTE_IN_QUOTED_FIELD"]
            ELSE AddChar(p, c)
      [] p.state = "QUOTE_IN_QUOTED_FIELD" ->
            IF c = DQ THEN [AddChar(p, c) EXCEPT !.state = "IN_QUOTED_FIELD"]
            ELSE IF c = COMMA THEN [SaveField(p) EXCEPT !.state = "START_FIELD"]
            ELSE IF c \in {LF, CR, EOL}
                 THEN [SaveField(p) EXCEPT !.state = AfterNewline(c)]
            ELSE [AddChar(p, c) EXCEPT !.state = "IN_FIELD"]
      [] p.state = "EAT_CRNL" ->
            IF c \in {LF, CR} THEN p
            ELSE IF c = EOL THEN [p EXCEPT !.state = "START_RECORD"]
            ELSE [p EXCEPT !.error = TRUE]

RECURSIVE FeedChars(_, _, _)
FeedChars(p, line, i) ==
    IF i > Len(line) THEN p
    ELSE With(ProcessChar(p, line[i]), LAMBDA q :
              IF q.error THEN q ELSE FeedChars(q, line, i + 1))

\* one line of the file: its characters, then EOL; a row is complete when
\* the parser is back at START_RECORD
FeedLine(p, line) ==
    With(ProcessChar(FeedChars(p, line, 1), EOL), LAMBDA q :
         IF q.state = "START_RECORD"
         THEN [q EXCEPT !.rows = Append(@, q.fields), !.fields = <<>>]
         ELSE q)

\* the end of the file: an unfinished quoted field still makes a row
EndOfFile(p) ==
    IF p.field # <<>> \/ p.state = "IN_QUOTED_FIELD"
    THEN With(SaveField(p), LAMBDA q : [q EXCEPT !.rows = Append(@, q.fields)])
    ELSE p

RECURSIVE FeedLines(_, _, _)
FeedLines(p, lines, k) ==
    IF k > Len(lines) THEN EndOfFile(p)
    ELSE With(FeedLine(p, lines[k]), LAMBDA q :
              IF q.error THEN q ELSE FeedLines(q, lines, k + 1))

\* list(csv.reader(f)) for the text f yields
reader(t) == FeedLines(ParserInit, Lines(t), 1)

----------------------------------------------------------------------------
(* json.dump / json.load.  A JSON file holds the document with its strings *)
(* in their escaped form; FileText gives the characters json.dump writes   *)
(* with indent=4, which is what any other reader of the file sees.         *)

RECURSIVE EncodeStr(_)
EncodeStr(s) ==
    IF s = <<>> THEN <<>>
    ELSE (CASE Head(s) = DQ -> <<BS, DQ>>
            [] Head(s) = BS -> <<BS, BS>>
            [] Head(s) = LF -> <<BS, "n">>
            [] Head(s) = CR -> <<BS, "r">>
            [] OTHER        -> <<Head(s)>>)
         \o EncodeStr(Tail(s))

RECURSIVE DecodeStr(_)
DecodeStr(s) ==
    IF s = <<>> THEN <<>>
    ELSE IF Head(s) = BS /\ Len(s) > 1
         THEN (CASE s[2] = "n" -> <<LF>>
                 [] s[2] = "r" -> <<CR>>
                 [] OTHER      -> <<s[2]>>)
              \o DecodeStr(Tail(Tail(s)))
         ELSE <<Head(s)>> \o DecodeStr(Tail(s))

EncodeObject(o) == [i \in DOMAIN o |-> <<EncodeStr(o[i][1]), EncodeStr(o[i][2])>>]
DecodeObject(o) == [i \in DOMAIN o |-> <<DecodeStr(o[i][1]), DecodeStr(o[i][2])>>]

\* data is a dict of lists of objects: {"records": [ {...}, ... ]}
dump(data) ==
    JsonFile([k \in DOMAIN data |->
                <<EncodeStr(data[k][1]),
                  [i \in DOMAIN data[k][2] |-> EncodeObject(data[k][2][i])]>>])

load(file) ==
    IF file.kind = "json"
    THEN Returned([k \in DOMAIN file.data |->
                    <<DecodeStr(file.data[k][1]),
                      [i \in DOMAIN file.data[k][2] |->
                          DecodeObject(file.data[k][2][i])]>>])
    ELSE Raised("JSONDecodeError")

Spaces(n) == [i \in 1..n |-> " "]
DumpStr(e) == <<DQ>> \o e \o <<DQ>>

ObjectText(o) ==
    IF o = <<>> THEN <<"{", "}">>
    ELSE <<"{", LF>>
         \o Join([i \in DOMAIN o |->
                    Spaces(12) \o DumpStr(o[i][1]) \o <<":", " ">> \o DumpStr(o[i][2])],
                 <<COMMA, LF>>)
         \o <<LF>> \o Spaces(8) \o <<"}">>

ListText(l) ==
    IF l = <<>> THEN <<"[", "]">>
    ELSE <<"[", LF>>
         \o Join([i \in DOMAIN l |-> Spaces(8) \o ObjectText(l[i])], <<COMMA, LF>>)
         \o <<LF>> \o Spaces(4) \o <<"]">>

JSONText(d) ==
    IF d = <<>> THEN <<"{", "}">>
    ELSE <<"{", LF>>
         \o Join([k \in DOMAIN d |->
                    Spaces(4) \o DumpStr(d[k][1]) \o <<":", " ">> \o ListText(d[k][2])],
                 <<COMMA, LF>>)
         \o <<LF, "}">>

\* the characters of an existing file
FileText(file) == IF file.kind = "text" THEN file.text ELSE JSONText(file.data)

----------------------------------------------------------------------------
(* CSVFormat.                                                              *)

\* a call of a Format method: the file system it leaves and its result
Outcome(fs, ret) == [fs |-> fs, ret |-> ret]

CSVFormat_write(fs, record, fName) ==
    LET exists == isfile(fs, fName)
        old    == IF exists THEN FileText(fs[fName]) ELSE <<>>
        header == IF ~exists THEN writerow(categories) ELSE <<>>
        text   == old \o header \o writerow(Values(record))
    IN  Outcome([fs EXCEPT ![fName] = TextFile(text)], Returned(TRUE))

\* one row of the file as a Record: record[Record.categories[index]] = value
RowRecord(row) == [i \in DOMAIN row |-> <<categories[i], row[i]>>]

CSVFormat_getRecords(fs, fName) ==
    IF isfile(fs, fName)
    THEN With(reader(UniversalNewlines(FileText(fs[fName]))), LAMBDA p :
         IF p.error THEN Raised("Error")
         ELSE IF p.rows = <<>> THEN Raised("StopIteration")
         ELSE IF \E i \in 2..Len(p.rows) : Len(p.rows[i]) > Len(categories)
              THEN Raised("IndexError")
         ELSE Returned([i \in 1..(Len(p.rows) - 1) |-> RowRecord(p.rows[i + 1])]))
    ELSE Returned(<<>>)

----------------------------------------------------------------------------
(* JSONFormat.                                                             *)

recordsKey == <<"records">>

HasKey(d, k) == \E i \in DOMAIN d : d[i][1] = k

\* data["records"].append(record)
AppendRecord(data, record) ==
    [k \in DOMAIN data |->
        IF data[k][1] = recordsKey
        THEN <<data[k][1], Append(data[k][2], record)>>
        ELSE data[k]]

JSONFormat_write(fs, record, fName) ==
    With(IF ~isfile(fs, fName)
         THEN [fs EXCEPT ![fName] = dump(<< <<recordsKey, <<>> >> >>)]
         ELSE fs, LAMBDA fs1 :
    With(load(fs1[fName]), LAMBDA data :
         IF IsRaise(data) THEN Outcome(fs1, data)
         ELSE IF ~HasKey(RetVal(data), recordsKey)
              THEN Outcome(fs1, Raised("KeyError"))
         ELSE Outcome([fs1 EXCEPT ![fName] = dump(AppendRecord(RetVal(data), record))],
                      Returned(TRUE))))

JSONFormat_getRecords(fs, fName) ==
    IF isfile(fs, fName)
    THEN With(load(fs[fName]), LAMBDA data :
         IF IsRaise(data) THEN data
         ELSE IF RetVal(data) = <<>> THEN Raised("IndexError")
         ELSE Returned(RetVal(data)[1][2]))
    ELSE Returned(<<>>)

----------------------------------------------------------------------------
(* str.strip and str.split.                                                *)

whitespace == {" ", CR, LF}

strip(s) ==
    With({i \in DOMAIN s : s[i] \notin whitespace}, LAMBDA solid :
         IF solid = {} THEN <<>>
         ELSE SubSeq(s, CHOOSE i \in solid : \A j \in solid : i <= j,
                        CHOOSE i \in solid : \A j \in solid : i >= j))

split(s, sep) ==
    With(SelectSeq([i \in DOMAIN s |-> i], LAMBDA i : s[i] = sep),
         LAMBDA cuts :
            [k \in 1..(Len(cuts) + 1) |->
                SubSeq(s, IF k = 1 THEN 1 ELSE cuts[k - 1] + 1,
                          IF k = Len(cuts) + 1 THEN Len(s) ELSE cuts[k] - 1)])

----------------------------------------------------------------------------
(* os.remove.                                                              *)

remove(fs, p) ==
    IF isfile(fs, p) THEN Outcome([fs EXCEPT ![p] = Absent], Returned("None"))
    ELSE Outcome(fs, Raised("FileNotFoundError"))

----------------------------------------------------------------------------
(* Database.  w is the Database object with the file system it works on:   *)
(* [fs, fileName, currentFormat, dataFile].  A method gives the object and *)
(* file system it leaves and its result.                                   *)

csv  == <<"csv">>
json == <<"json">>

\* Database.__configFormats: the keys of self.formats
formats == {csv, json}

\* self.formats[name].write(record, fName)
Format_write(name, fs, record, fName) ==
    CASE name = csv  -> CSVFormat_write(fs, record, fName)
      [] name = json -> JSONFormat_write(fs, record, fName)
      [] OTHER       -> Outcome(fs, Raised("KeyError"))

\* self.formats[name].getRecords(fName)
Format_getRecords(name, fs, fName) ==
    CASE name = csv  -> CSVFormat_getRecords(fs, fName)
      [] name = json -> JSONFormat_getRecords(fs, fName)
      [] OTHER       -> Raised("KeyError")

Call(w, ret) == [w |-> w, ret |-> ret]

\* f"{fileName}.{format}"
FilePath(fileName, format) == fileName \o <<DOT>> \o format

\* Database.__init__
Database(fs, fileName, fileFormat) ==
    [fs |-> fs, fileName |-> fileName, currentFormat |-> fileFormat,
     dataFile |-> FilePath(fileName, fileFormat)]

add(w, newRecord) ==
    With(Format_write(w.currentFormat, w.fs, newRecord, w.dataFile), LAMBDA o :
         Call([w EXCEPT !.fs = o.fs], o.ret))

\* for record in records: self.formats[self.currentFormat].write(record, self.dataFile)
RECURSIVE WriteEach(_, _, _)
WriteEach(w, records, i) ==
    IF i > Len(records) THEN Call(w, Returned(TRUE))
    ELSE With(Format_write(w.currentFormat, w.fs, records[i], w.dataFile),
              LAMBDA o :
                 IF IsRaise(o.ret) THEN Call([w EXCEPT !.fs = o.fs], o.ret)
                 ELSE WriteEach([w EXCEPT !.fs = o.fs], records, i + 1))

importRecords(w, fName) ==
    With(split(strip(fName), DOT), LAMBDA parts :
         IF Len(parts) < 2 THEN Call(w, Raised("IndexError"))
         ELSE With(parts[2], LAMBDA format :
              IF format \in formats
              THEN With(Format_getRecords(format, w.fs, fName), LAMBDA records :
                        IF IsRaise(records) THEN Call(w, records)
                        ELSE WriteEach(w, RetVal(records), 1))
              ELSE Call(w, Returned(FALSE))))

\* write when open(fName, ...) raises OSError (no permission, disk full)
Format_writeFailing(name, fs, record, fName) ==
    IF name \in formats THEN Outcome(fs, Raised("OSError"))
    ELSE Outcome(fs, Raised("KeyError"))

\* the write loop of importRecords when the failAt-th write cannot open
\* the data file
RECURSIVE WriteEachUntil(_, _, _, _)
WriteEachUntil(w, records, i, failAt) ==
    IF i > Len(records) THEN Call(w, Returned(TRUE))
    ELSE With(IF i = failAt
              THEN Format_writeFailing(w.currentFormat, w.fs, records[i], w.dataFile)
              ELSE Format_write(w.currentFormat, w.fs, records[i], w.dataFile),
              LAMBDA o :
                 IF IsRaise(o.ret) THEN Call([w EXCEPT !.fs = o.fs], o.ret)
                 ELSE WriteEachUntil([w EXCEPT !.fs = o.fs], records, i + 1, failAt))

\* importRecords when the failAt-th write cannot open the data file
importRecordsUntil(w, fName, failAt) ==
    With(split(strip(fName), DOT), LAMBDA parts :
         IF Len(parts) < 2 THEN Call(w, Raised("IndexError"))
         ELSE With(parts[2], LAMBDA format :
              IF format \in formats
              THEN With(Format_getRecords(format, w.fs, fName), LAMBDA records :
                        IF IsRaise(records) THEN Call(w, records)
                        ELSE WriteEachUntil(w, RetVal(records), 1, failAt))
              ELSE Call(w, Returned(FALSE))))

\* ConvertNoDataFile, had it derived the data file path again
ConvertNoDataFile_NewPath(w, newFormat) ==
    Call([w EXCEPT !.currentFormat = newFormat,
                   !.dataFile = FilePath(w.fileName, newFormat)],
         Returned(TRUE))

\* convert, no data file: self.currentFormat = newFormat
ConvertNoDataFile(w, newFormat) ==
    Call([w EXCEPT !.currentFormat = newFormat], Returned(TRUE))

\* self.add(record, newFormat): add takes one record and nothing else
AddWithFormat(w, record, newFormat) == Call(w, Raised("TypeError"))

\* for record in records: self.add(record, newFormat)
RECURSIVE AddEach(_, _, _, _)
AddEach(w, records, newFormat, i) ==
    IF i > Len(records) THEN Call(w, Returned("None"))
    ELSE With(AddWithFormat(w, records[i], newFormat), LAMBDA c :
              IF IsRaise(c.ret) THEN c
              ELSE AddEach(c.w, records, newFormat, i + 1))

\* convert, the round-trip check and what follows it
ConvertVerify(w, records, newFormat, newFile) ==
    With(Format_getRecords(newFormat, w.fs, newFile), LAMBDA back :
    IF IsRaise(back) THEN Call(w, back)
    ELSE IF ListEq(RetVal(back), records)
         THEN With(remove(w.fs, w.dataFile), LAMBDA r :
              IF IsRaise(r.ret) THEN Call(w, r.ret)
              ELSE Call([w EXCEPT !.fs = r.fs, !.currentFormat = newFormat,
                                  !.dataFile = newFile],
                        Returned(TRUE)))
         ELSE With(remove(w.fs, newFile), LAMBDA r :
              IF IsRaise(r.ret) THEN Call(w, r.ret)
              ELSE Call([w EXCEPT !.fs = r.fs], Returned(FALSE))))

\* convert, data file present and newFormat registered
ConvertMigrate(w, newFormat) ==
    With(Format_getRecords(w.currentFormat, w.fs, w.dataFile), LAMBDA records :
    IF IsRaise(records) THEN Call(w, records)
    ELSE With(FilePath(w.fileName, newFormat), LAMBDA newFile :
         With(IF isfile(w.fs, newFile)
              THEN [w EXCEPT !.fs = remove(w.fs, newFile).fs]
              ELSE w, LAMBDA w1 :
         With(AddEach(w1, RetVal(records), newFormat, 1), LAMBDA added :
              IF IsRaise(added.ret) THEN added
              ELSE ConvertVerify(added.w, RetVal(records), newFormat, newFile)))))

\* ConvertSameFormat, had the early return been left out
ConvertSameFormat_NoReturn(w, newFormat) ==
    IF ~isfile(w.fs, w.dataFile) THEN ConvertNoDataFile(w, newFormat)
    ELSE IF newFormat \in formats THEN ConvertMigrate(w, newFormat)
    ELSE Call(w, Returned(FALSE))

\* convert, newFormat == self.currentFormat
ConvertSameFormat(w, newFormat) == Call(w, Returned(TRUE))

convert(w, newFormat) ==
    IF newFormat = w.currentFormat THEN ConvertSameFormat(w, newFormat)
    ELSE IF ~isfile(w.fs, w.dataFile) THEN ConvertNoDataFile(w, newFormat)
    ELSE IF newFormat \in formats THEN ConvertMigrate(w, newFormat)
    ELSE Call(w, Returned(FALSE))

getRecords(w) ==
    Call(w, Format_getRecords(w.currentFormat, w.fs, w.dataFile))

\* clean, had it deleted the file named by fileName and currentFormat
clean_DerivedPath(w) ==
    IF isfile(w.fs, FilePath(w.fileName, w.currentFormat))
    THEN Call([w EXCEPT !.fs = remove(w.fs, FilePath(w.fileName, w.currentFormat)).fs],
              Returned("None"))
    ELSE Call(w, Returned("None"))

clean(w) ==
    IF isfile(w.fs, w.dataFile)
    THEN Call([w EXCEPT !.fs = remove(w.fs, w.dataFile).fs], Returned("None"))
    ELSE Call(w, Returned("None"))

STAR == "*"
QUESTION == "?"

\* fnmatch.translate: the pattern as a list of regular-expression parts,
\* "run" for a run of any characters (successive stars give one run),
\* "one" for any one character and the character itself otherwise; for
\* patterns without a bracket
RECURSIVE translate(_, _, _)
translate(pat, i, res) ==
    IF i > Len(pat) THEN res
    ELSE IF pat[i] = STAR
         THEN translate(pat, i + 1,
                        IF res # <<>> /\ res[Len(res)] = [part |-> "run"]
                        THEN res ELSE Append(res, [part |-> "run"]))
    ELSE IF pat[i] = QUESTION
         THEN translate(pat, i + 1, Append(res, [part |-> "one"]))
    ELSE translate(pat, i + 1, Append(res, [part |-> "char", c |-> pat[i]]))

\* re.match of the translated pattern, which ends with \Z and is compiled
\* with (?s): ends is the set of lengths of the prefixes of s that the
\* first k - 1 parts match
RECURSIVE match(_, _, _, _)
match(parts, k, s, ends) ==
    IF k > Len(parts) THEN Len(s) \in ends
    ELSE match(parts, k + 1, s,
               IF parts[k].part = "run"
               THEN {n \in 0..Len(s) : \E e \in ends : e <= n}
               ELSE IF parts[k].part = "one"
                    THEN {e + 1 : e \in {x \in ends : x < Len(s)}}
               ELSE {e + 1 : e \in {x \in ends : x < Len(s) /\ s[x + 1] = parts[k].c}})

\* os.path.normcase of posixpath: the string itself
normcase(s) == s

\* fnmatch, had the pattern not been anchored at the end of the name
fnmatch_Prefix(fname, pat) ==
    match(translate(normcase(pat) \o <<STAR>>, 1, <<>>), 1, normcase(fname), {0})

\* fnmatch.fnmatch(name, pat)
fnmatch(fname, pat) ==
    match(translate(normcase(pat), 1, <<>>), 1, normcase(fname), {0})

\* entry[key] of a dict: the value, or KeyError
GetItem(entry, key) ==
    IF HasKey(entry, key)
    THEN Returned(entry[CHOOSE i \in DOMAIN entry : entry[i][1] = key][2])
    ELSE Raised("KeyError")

\* the inner loop of filter: entry is appended once for every character of
\* searchItem that its value equals
SubItemMatches(value, searchItem) ==
    Cardinality({i \in DOMAIN searchItem : value = <<searchItem[i]>>})

\* the loop of filter over the entries from the i-th on
RECURSIVE FilterEach(_, _, _, _, _)
FilterEach(entries, i, valueSelected, searchItem, filterResults) ==
    IF i > Len(entries) THEN Returned(filterResults)
    ELSE With(GetItem(entries[i], valueSelected), LAMBDA value :
         IF IsRaise(value) THEN value
         ELSE FilterEach(entries, i + 1, valueSelected, searchItem,
                IF fnmatch(RetVal(value), searchItem)
                THEN Append(filterResults, entries[i])
                ELSE IF Contains(searchItem, COMMA)
                     THEN filterResults \o
                          [n \in 1..SubItemMatches(RetVal(value), searchItem)
                             |-> entries[i]]
                     ELSE filterResults))

filter(w, valueSelected, searchItem) ==
    With(getRecords(w).ret, LAMBDA entries :
         IF IsRaise(entries) THEN Call(w, entries)
         ELSE Call(w, FilterEach(RetVal(entries), 1, valueSelected, searchItem,
                                 <<>>)))

----------------------------------------------------------------------------
(* The callers' inputs and the files the environment provides.             *)

name    == categories[1]
address == categories[2]
phone   == categories[3]

xml == <<"xml">>                 \* a format name that is not registered
FormatNames == formats \cup {xml}

\* a full record, fields supplied in the order of Record.categories
rPlain  == << <<name, <<"a">>>>, <<address, <<"b">>>>, <<phone, <<"c">>>> >>
\* a full record, fields supplied in another order
rOrder  == << <<address, <<"d">>>>, <<name, <<"e">>>>, <<phone, <<"f">>>> >>
\* values with a comma, a quote, a backslash, a line feed and a carriage
\* return
rQuoted == << <<name, <<"g", COMMA, DQ>>>>, <<address, <<BS, LF>>>>,
              <<phone, <<"h", CR>>>> >>

RecordInputs == {rPlain, rOrder, rQuoted}

\* the fields and the glob patterns filter is called with: any one
\* character, a prefix, and a list with a comma
FilterFields == {name}
SearchItems  == {<<QUESTION>>, <<"g", STAR>>, <<"a", COMMA, "a">>}

db == <<"db">>
dbCsv     == FilePath(db, csv)
dbJson    == FilePath(db, json)
dbXml     == FilePath(db, xml)
srcCsv    == FilePath(<<"src">>, csv)
srcJson   == FilePath(<<"src">>, json)
srcXml    == FilePath(<<"src">>, xml)
srcCsvXml == FilePath(srcCsv, xml)                    \* "src.csv.xml"
noDot     == <<"nodot">>
missingCsv == FilePath(<<"missing">>, csv)

Paths == {dbCsv, dbJson, dbXml, srcCsv, srcJson, srcXml, srcCsvXml, noDot,
         missingCsv}
\* the names importRecords is called with: the files of other programs
ImportNames == Paths \ {dbCsv, dbJson, dbXml}
\* the import during which a write is failed: the source with two records
FailingImportNames == {srcJson}

NoFiles == [p \in Paths |-> Absent]

\* a file of the given format holding the given records, as write makes it
RECURSIVE Written(_, _, _)
Written(format, file, records) ==
    IF records = <<>> THEN file
    ELSE Written(format,
                 Format_write(format, [NoFiles EXCEPT ![dbCsv] = file],
                              Head(records), dbCsv).fs[dbCsv],
                 Tail(records))

\* a file of the given format with no record in it
EmptyFileOf(format) ==
    IF format = csv THEN TextFile(writerow(categories))
    ELSE dump(<< <<recordsKey, <<>> >> >>)

\* what the file "db".format left by an earlier run can be, when it is the
\* data file of this run and when it is not
EarlierFiles(format, isDataFile) ==
    {Absent, Written(format, Absent, <<rPlain>>)}
    \cup (IF isDataFile THEN {EmptyFileOf(format)} ELSE {})

SourceFiles ==
    [NoFiles EXCEPT ![srcCsv]    = Written(csv, Absent, <<rPlain>>),
                    ![srcJson]   = Written(json, Absent, <<rOrder, rPlain>>),
                    ![srcXml]    = Written(csv, Absent, <<rPlain>>),
                    ![srcCsvXml] = Written(csv, Absent, <<rPlain>>)]

----------------------------------------------------------------------------
(* The state machine.                                                      *)

VARIABLES
    fs,             \* the file system
    fileName,       \* Database.fileName
    currentFormat,  \* Database.currentFormat
    dataFile,       \* Database.dataFile
    last,           \* the last call: its name, argument, result and the
                    \* state it was made in
    hist            \* the records added since the data file was absent,
                    \* when nothing but add has written to it

vars == <<fs, fileName, currentFormat, dataFile, last, hist>>

W == [fs |-> fs, fileName |-> fileName, currentFormat |-> currentFormat,
      dataFile |-> dataFile]

\* the size of the data file: the objects of a JSON document, the rows
\* writerow has ended in a text file less the header
RecCount(w) ==
    IF ~isfile(w.fs, w.dataFile) THEN 0
    ELSE LET f == w.fs[w.dataFile] IN
         IF f.kind = "json"
         THEN (IF f.data = <<>> THEN 0 ELSE Len(f.data[1][2]))
         ELSE Cardinality({i \in 1..(Len(f.text) - 1) :
                              f.text[i] = CR /\ f.text[i + 1] = LF}) - 1

NoHistory == [valid |-> FALSE, recs |-> <<>>]
Fresh     == [valid |-> TRUE,  recs |-> <<>>]

Init ==
    \E fileFormat \in FormatNames :
    \E c \in EarlierFiles(csv, fileFormat = csv),
       j \in EarlierFiles(json, fileFormat = json) :
        LET w == Database([SourceFiles EXCEPT ![dbCsv] = c, ![dbJson] = j],
                          db, fileFormat)
        IN  /\ fs = w.fs
            /\ fileName = w.fileName
            /\ currentFormat = w.currentFormat
            /\ dataFile = w.dataFile
            /\ last = [op |-> "init", arg |-> <<>>, ret |-> Returned("None"),
                       pre |-> w]
            /\ hist = IF isfile(w.fs, w.dataFile) THEN NoHistory ELSE Fresh

Step(op, arg, c) ==
    /\ RecCount(c.w) <= MaxRecs
    /\ fs' = c.w.fs
    /\ fileName' = c.w.fileName
    /\ currentFormat' = c.w.currentFormat
    /\ dataFile' = c.w.dataFile
    /\ last' = [op |-> op, arg |-> arg, ret |-> c.ret, pre |-> W]
    /\ hist' = IF ~isfile(c.w.fs, c.w.dataFile) THEN Fresh
               ELSE IF op = "add" /\ c.ret = Returned(TRUE) /\ hist.valid
                    THEN [hist EXCEPT !.recs = Append(@, arg)]
               ELSE IF c.w.dataFile = dataFile /\ c.w.fs[dataFile] = fs[dataFile]
                    THEN hist
               ELSE NoHistory

Add(newRecord) ==
    \E c \in {add(W, newRecord)} : Step("add", newRecord, c)
ImportRecords(fName) ==
    \E c \in {importRecords(W, fName)} : Step("importRecords", fName, c)
\* importRecords while the environment fails the failAt-th write
ImportRecordsFailing(fName, failAt) ==
    \E c \in {importRecordsUntil(W, fName, failAt)} :
        /\ c.ret = Raised("OSError")
        /\ Step("importRecordsFailing", <<fName, failAt>>, c)
Convert(newFormat) ==
    \E c \in {convert(W, newFormat)} : Step("convert", newFormat, c)
GetRecords == \E c \in {getRecords(W)} : Step("getRecords", <<>>, c)
Clean      == \E c \in {clean(W)} : Step("clean", <<>>, c)
Filter(valueSelected, searchItem) ==
    \E c \in {filter(W, valueSelected, searchItem)} :
        Step("filter", <<valueSelected, searchItem>>, c)

Next ==
    \/ \E newRecord \in RecordInputs : Add(newRecord)
    \/ \E fName \in ImportNames : ImportRecords(fName)
    \/ \E fName \in FailingImportNames, failAt \in 1..MaxFailAt :
          ImportRecordsFailing(fName, failAt)
    \/ \E newFormat \in FormatNames : Convert(newFormat)
    \/ GetRecords
    \/ Clean
    \/ \E valueSelected \in FilterFields, searchItem \in SearchItems :
          Filter(valueSelected, searchItem)

Spec == Init /\ [][Next]_vars

----------------------------------------------------------------------------
(* The properties.  Pre is the state the last call was made in.            *)

Pre == last.pre

\* the call returned True
Succeeded(ret) == ret.kind = "return" /\ ret.val = <<TRUE>>
\* the call returned False
Failed(ret) == ret.kind = "return" /\ ret.val = <<FALSE>>

\* what getRecords() returns in the state w
Stored(w) == getRecords(w).ret

\* getRecords() in w returns a list equal to records
Reads(w, records) ==
    /\ ~IsRaise(Stored(w))
    /\ ListEq(RetVal(Stored(w)), records)

\* C1: for a non-empty dataset and distinct registered formats f1, f2, on a
\* Database of format f1 whose data file fileName.f1 holds the dataset,
\* convert(f2) reports success, getRecords() then returns what it returned
\* before, fileName.f1 is gone and fileName.f2 exists.
C1_ConvertEquivalence ==
    ( /\ last.op = "convert"
      /\ Pre.currentFormat \in formats
      /\ last.arg \in formats
      /\ last.arg # Pre.currentFormat
      /\ Pre.dataFile = FilePath(Pre.fileName, Pre.currentFormat)
      /\ ~IsRaise(Stored(Pre))
      /\ RetVal(Stored(Pre)) # <<>> )
    => /\ Succeeded(last.ret)
       /\ Reads(W, RetVal(Stored(Pre)))
       /\ ~isfile(fs, FilePath(fileName, Pre.currentFormat))
       /\ isfile(fs, FilePath(fileName, last.arg))

\* C2: when convert does not report success, the current format, the data
\* file path and the content of the original data file are what they were
\* before the call, and the file fileName.newFormat holds nothing that was
\* written by the call.
C2_FailedConvertKeepsData ==
    (last.op = "convert" /\ ~Succeeded(last.ret))
    => /\ currentFormat = Pre.currentFormat
       /\ dataFile = Pre.dataFile
       /\ fs[Pre.dataFile] = Pre.fs[Pre.dataFile]
       /\ LET newFile == FilePath(fileName, last.arg) IN
          isfile(fs, newFile) => fs[newFile] = Pre.fs[newFile]

\* C3: every convert call ends by returning a boolean, never by raising.
C3_ConvertReturnsBoolean ==
    last.op = "convert"
    => /\ last.ret.kind = "return"
       /\ RetVal(last.ret) \in BOOLEAN

\* C4: in every reachable state dataFile is fileName + "." + currentFormat.
C4_DataFileDerived == dataFile = FilePath(fileName, currentFormat)

\* C5: convert(newFormat) made when no data file exists reports success,
\* creates no file and changes nothing but the current format, which
\* becomes newFormat.
C5_ConvertWithoutDataFile ==
    (last.op = "convert" /\ ~isfile(Pre.fs, Pre.dataFile))
    => /\ Succeeded(last.ret)
       /\ fs = Pre.fs
       /\ dataFile = Pre.dataFile
       /\ fileName = Pre.fileName
       /\ currentFormat = last.arg

\* a convert to another format was made with no data file
C5_Witness ==
    /\ last.op = "convert"
    /\ ~isfile(Pre.fs, Pre.dataFile)
    /\ last.arg # Pre.currentFormat
    /\ currentFormat = last.arg

\* C6: convert(newFormat) with newFormat the current format reports success
\* and leaves every file, the data file path and the current format as
\* they were.
C6_ConvertToSameFormat ==
    (last.op = "convert" /\ last.arg = Pre.currentFormat)
    => /\ Succeeded(last.ret)
       /\ W = Pre

\* a convert to the current format was made on a data file with records
C6_Witness ==
    /\ last.op = "convert"
    /\ last.arg = Pre.currentFormat
    /\ isfile(Pre.fs, Pre.dataFile)
    /\ ~IsRaise(Stored(Pre))
    /\ RetVal(Stored(Pre)) # <<>>

\* C7: convert(newFormat) with newFormat not registered reports failure and
\* leaves the current format and the data file as they were.
C7_UnknownFormatFails ==
    (last.op = "convert" /\ last.arg \notin formats)
    => /\ Failed(last.ret)
       /\ currentFormat = Pre.currentFormat
       /\ dataFile = Pre.dataFile
       /\ fs[Pre.dataFile] = Pre.fs[Pre.dataFile]

Distinct(records) ==
    \A i, j \in DOMAIN records : i # j => ~DictEq(records[i], records[j])

\* C8: after n successful add calls with distinct records, starting with no
\* data file, getRecords() returns those n records in the order added, in
\* each registered format.
C8_AppendMonotonic ==
    (hist.valid /\ currentFormat \in formats /\ Distinct(hist.recs))
    => Reads(W, hist.recs)

\* C9: writing a record with the three fields, supplied in any order, to an
\* absent file in a registered format and reading the file back gives one
\* record equal to it.
C9_RoundTrip ==
    ( /\ last.op = "add"
      /\ Pre.currentFormat \in formats
      /\ ~isfile(Pre.fs, Pre.dataFile) )
    => /\ Succeeded(last.ret)
       /\ Reads(W, <<last.arg>>)

\* the part of a file name after its last dot; none when it has no dot
Extension(fName) ==
    With(split(fName, DOT), LAMBDA parts :
         IF Len(parts) < 2 THEN <<>> ELSE parts[Len(parts)])

\* C10: importRecords(sourcePath) with an extension that is not a registered
\* format name reports failure and leaves the files and the database as
\* they were, for names without a dot and with several dots too.
C10_UnknownExtensionFails ==
    (last.op = "importRecords" /\ Extension(last.arg) \notin formats)
    => /\ Failed(last.ret)
       /\ W = Pre

\* C11: importRecords(sourcePath) on a path that does not exist, with a
\* registered format as its extension, reports failure.
C11_MissingImportFails ==
    ( /\ last.op = "importRecords"
      /\ ~isfile(Pre.fs, last.arg)
      /\ Extension(last.arg) \in formats )
    => Failed(last.ret)

\* the records of the import source, read in the format its extension names
SourceRecords(w, fName) == Format_getRecords(Extension(fName), w.fs, fName)

\* C12: after a successful importRecords(sourcePath) from a source in a
\* registered format, getRecords() returns the records it returned before
\* followed by the records of the source in source order, and a source
\* that is not the data file is not modified.
C12_ImportAppends ==
    ( /\ last.op = "importRecords"
      /\ Succeeded(last.ret)
      /\ Extension(last.arg) \in formats
      /\ ~IsRaise(Stored(Pre))
      /\ ~IsRaise(SourceRecords(Pre, last.arg)) )
    => /\ Reads(W, RetVal(Stored(Pre)) \o RetVal(SourceRecords(Pre, last.arg)))
       /\ last.arg # Pre.dataFile => fs[last.arg] = Pre.fs[last.arg]

\* glob semantics: a star stands for any run of characters, a question
\* mark for any one character, every other character for itself
RECURSIVE Glob(_, _)
Glob(s, p) ==
    IF p = <<>> THEN s = <<>>
    ELSE IF Head(p) = STAR
         THEN \E n \in 0..Len(s) : Glob(SubSeq(s, n + 1, Len(s)), Tail(p))
    ELSE /\ s # <<>>
         /\ Head(p) = QUESTION \/ Head(p) = Head(s)
         /\ Glob(Tail(s), Tail(p))

\* the record has the field and its value matches the pattern
FieldMatches(record, fieldName, pattern) ==
    \E i \in DOMAIN record :
        record[i][1] = fieldName /\ Glob(record[i][2], pattern)

\* the records of the list that match, in the order of the list
Matching(records, fieldName, pattern) ==
    SelectSeq(records, LAMBDA record : FieldMatches(record, fieldName, pattern))

C14_MissingFileRead ==
    (last.op = "getRecords" /\ ~isfile(Pre.fs, Pre.dataFile))
    => last.ret = Returned(<<>>)

\* C15: clean() deletes the data file when it is present and does nothing
\* when it is absent; a second clean() changes nothing more, and clean()
\* changes neither the current format nor any file but the data file.
C15_CleanDeletesDataFile ==
    last.op = "clean"
    => /\ last.ret = Returned("None")
       /\ ~isfile(fs, dataFile)
       /\ \A p \in DOMAIN fs : p # Pre.dataFile => fs[p] = Pre.fs[p]
       /\ currentFormat = Pre.currentFormat
       /\ dataFile = Pre.dataFile
       /\ fileName = Pre.fileName
       /\ ~isfile(Pre.fs, Pre.dataFile) => W = Pre
       /\ clean(W) = Call(W, Returned("None"))

\* clean() was called with the data file present, next to another file of
\* the same fileName
C15_Witness ==
    /\ last.op = "clean"
    /\ isfile(Pre.fs, Pre.dataFile)
    /\ ~isfile(fs, dataFile)
    /\ \E p \in {dbCsv, dbJson} : p # dataFile /\ isfile(fs, p)

\* the values of a record in the order of the fixed field list
InFieldOrder(record) ==
    [i \in DOMAIN categories |->
        record[CHOOSE k \in DOMAIN record : record[k][1] = categories[i]][2]]

\* the text of a CSV file with the header row and one row for each record,
\* its values in the fixed field order
RECURSIVE Layout(_)
Layout(records) ==
    IF records = <<>> THEN writerow(categories)
    ELSE Layout(SubSeq(records, 1, Len(records) - 1))
         \o writerow(InFieldOrder(records[Len(records)]))

\* C16: after CSV writes to a file that was absent, the file is one header
\* row with the fixed field names followed by one row for each written
\* record, in write order, each with the record's values in the fixed
\* field order.
C16_CsvLayout ==
    ( /\ hist.valid
      /\ currentFormat = csv
      /\ isfile(fs, dataFile) )
    => fs[dataFile] = TextFile(Layout(hist.recs))

\* C17: when a write of importRecords fails partway through the batch, the
\* records written before it remain in the data file and the call reports
\* failure.
C17_PartialImport ==
    (last.op = "importRecordsFailing" /\ last.arg[2] > 1)
    => /\ Failed(last.ret)
       /\ fs = WriteEach(Pre,
                         SubSeq(RetVal(SourceRecords(Pre, last.arg[1])),
                                1, last.arg[2] - 1), 1).w.fs

\* xs is ys with some of its elements left out
IsSubsequence(xs, ys) ==
    \E f \in [DOMAIN xs -> DOMAIN ys] :
        /\ \A i, j \in DOMAIN xs : i < j => f[i] < f[j]
        /\ \A i \in DOMAIN xs : xs[i] = ys[f[i]]

\* C18: for every field name and every pattern, with a comma or without,
\* the list filter returns is a subsequence of getRecords(): every stored
\* record is in it at most once and in storage order.
C18_FilterSubsequence ==
    ( /\ last.op = "filter"
      /\ ~IsRaise(last.ret)
      /\ ~IsRaise(Stored(Pre)) )
    => IsSubsequence(RetVal(last.ret), RetVal(Stored(Pre)))

\* C19: for a Database constructed with a registered format name, the
\* current format is a key of the format registry in every reachable
\* state: no call takes a registered current format to an unregistered
\* one.
C19_FormatStaysRegistered ==
    [][(currentFormat \in formats) => (currentFormat' \in formats)]_vars

====
